---------------------------- MODULE Spec2Model ----------------------------
(***************************************************************************)
(* Execution-memory subsystem of browser-use-self:                         *)
(*   memory/memory_manager.py  (MemoryManager: the SQLite record store)    *)
(*   memory/rating_system.py   (RatingSystem.process_rating)               *)
(*                                                                         *)
(* The database is the pair of tables execution_records and                *)
(* similarity_index.  Every public method opens its own connection         *)
(* (sqlite3.connect, default isolation level: the first INSERT/DELETE      *)
(* opens a transaction that takes the database write lock; the changes    *)
(* become visible to other connections at conn.commit() and are dropped   *)
(* by conn.rollback()).  Callers are the threads / processes / coroutines *)
(* that invoke the public methods; they interleave at SQL statement and   *)
(* await granularity.                                                      *)
(***************************************************************************)
EXTENDS Integers, Sequences, FiniteSets, TLC

(***************************************************************************)
(* Bounds of the model.                                                    *)
(***************************************************************************)
NumCallers == 2      \* concurrent callers of the public methods
MaxCalls == 2        \* calls started in one behaviour
MaxTime == 2         \* distinct values datetime.now() takes
MaxKw == 1           \* comma-separated pieces in an answer of the LLM

Callers == 1..NumCallers
Questions == {"qa"}
Keywords == {"k1", "k2"}
Times == 1..MaxTime

\* The texts and keywords of the worked example: record A "find AI trends",
\* record B "find AI news", query "AI trends".
ScenarioQuestions == {"find AI trends", "find AI news", "AI trends"}
ScenarioKeywords ==
    {"find", "ai", "trends", "news", "open", "browser", "search", "summarize"}

AllQuestions == Questions \cup ScenarioQuestions
AllKeywords == Keywords \cup ScenarioKeywords

\* Ratings a caller may pass: below the range, below the threshold, the two
\* admitted values, and above the range.
Ratings == {0, 3, 4, 5, 6}

(***************************************************************************)
(* Values.                                                                 *)
(***************************************************************************)
\* _generate_record_id: md5(f"{question}_{timestamp}")[:12] -- a function of
\* the pair (question, timestamp) only.
_generate_record_id(question, timestamp) == <<question, timestamp>>

RecordIds == {_generate_record_id(q, t) : q \in AllQuestions, t \in Times}
NoId == <<"", 0>>

\* The record ids callers pass to delete_record.
DeletedIds == {_generate_record_id(q, t) : q \in Questions, t \in Times}

\* The keys of similarity_index rows: (record_id, keyword).
IndexKeys == RecordIds \X AllKeywords

\* Number of occurrences of keyword k in list kws.
Occurrences(kws, k) == Cardinality({i \in DOMAIN kws : kws[i] = k})

\* ExecutionRecord as stored in a row of execution_records (the id is the key).
ExecutionRecord(question, steps, rating, timestamp, task_type, success, keywords) ==
    [question |-> question, execution_steps |-> steps, rating |-> rating,
     timestamp |-> timestamp, task_type |-> task_type, success |-> success,
     similarity_keywords |-> keywords]

\* _init_database: both tables exist and are empty.  similarity_index is a
\* bag of (keyword, record_id, 1.0) rows: index[id, k] is the number of rows,
\* for the keys that have a row.
\* PRAGMA foreign_keys is never set, so the FOREIGN KEY clause is not enforced.
EmptyDb == [records |-> <<>>,
            index |-> [p \in {} |-> 0]]

\* The number of similarity_index rows (k, id, 1.0).
IndexRows(d, id, k) ==
    IF <<id, k>> \in DOMAIN d.index THEN d.index[<<id, k>>] ELSE 0

HasRecord(d, id) == id \in DOMAIN d.records

(***************************************************************************)
(* SQL statements, as functions from a database value to a database value. *)
(***************************************************************************)
\* INSERT OR REPLACE INTO execution_records (...) VALUES (...)
UpsertRecord(d, id, rec) ==
    [d EXCEPT !.records =
        [x \in (DOMAIN d.records) \cup {id} |->
            IF x = id THEN rec ELSE d.records[x]]]

\* (variant: the DELETE removes no row)
DeleteIndexRowsNothing(d, id) == d

\* DELETE FROM similarity_index WHERE record_id = ?
DeleteIndexRows(d, id) ==
    [d EXCEPT !.index =
        [p \in {q \in DOMAIN d.index : q[1] # id} |-> d.index[p]]]

\* INSERT INTO similarity_index (keyword, record_id, weight) VALUES (?, ?, 1.0)
InsertIndexRow(d, id, keyword) ==
    [d EXCEPT !.index =
        [p \in (DOMAIN d.index) \cup {<<id, keyword>>} |->
            IF p = <<id, keyword>> THEN IndexRows(d, id, keyword) + 1
            ELSE d.index[p]]]

\* (variant: DELETE FROM execution_records without the WHERE clause)
DeleteRecordRowAll(d, id) ==
    [d EXCEPT !.records = [x \in {} |-> d.records[x]]]

\* DELETE FROM execution_records WHERE id = ?
DeleteRecordRow(d, id) ==
    [d EXCEPT !.records =
        [x \in (DOMAIN d.records) \ {id} |-> d.records[x]]]


(***************************************************************************)
(* State.                                                                  *)
(***************************************************************************)
VARIABLES
    db,         \* the committed database: what a newly opened connection reads
    writer,     \* the caller whose connection holds the write lock, or NoWriter
    work,       \* the writer's uncommitted view (equals db when nobody writes)
    call,       \* per caller: the method being run, its arguments and locals
    now,        \* the value datetime.now() returns
    ncalls,     \* calls started so far
    lastWrite   \* per record id: the write that committed last (history)

vars == <<db, writer, work, call, now, ncalls, lastWrite>>

NoWriter == 0

\* (variant: isolation_level=None, every statement commits at once)
TransactionModeAutocommit == "autocommit"

\* sqlite3.connect(self.db_path, timeout=30.0): isolation_level keeps its
\* default, so the DML statements of one call form one transaction that ends at
\* conn.commit() / conn.rollback().
TransactionMode == "deferred"

\* A number with a fractional part, as the quotient num / den of integers.
Frac(num, den) == [num |-> num, den |-> den]
FracLess(a, b) == a.num * b.den < b.num * a.den
FracLeq(a, b) == a.num * b.den <= b.num * a.den
FracEq(a, b) == a.num * b.den = b.num * a.den
FracZero == Frac(0, 1)
FracOne == Frac(1, 1)

\* The dict get_strategy_suggestions returns; this value stands for "no dict".
NoSuggestions == [has_suggestions |-> FALSE, message |-> "",
                  suggested_steps |-> <<>>, confidence |-> FracZero]

\* The dict get_statistics returns; `{}` (line 358) has returned = FALSE.
NoStatistics == [returned |-> FALSE, total_records |-> 0,
                 rating_distribution |-> [r \in {} |-> 0],
                 task_type_distribution |-> [t \in {} |-> 0],
                 success_rate |-> FracZero]

\* A caller that runs nothing.
\* The execution plan of a session, a dict built by TaskExecutor.analyze_task
\* (task_executor.py lines 42-53 and 59-71): its status, the records and
\* the suggestions it carries and whether it has the key analysis_error;
\* ratings counts the ratings of four stars and more that were stored for it
\* and stored_ids holds the ids store_execution reported for them.  The list [] the default plan
\* holds under strategy_suggestions is written as NoSuggestions with the
\* message "[]".
NoPlan == [question |-> "", status |-> "", similar_records |-> <<>>,
           strategy_suggestions |-> NoSuggestions,
           analysis_error |-> FALSE, ratings |-> 0, stored_ids |-> {}]

Idle == [op |-> "idle", pc |-> "idle",
         question |-> "", steps |-> <<>>, rating |-> 0, success |-> FALSE,
         limit |-> 0, rows |-> <<>>, suggestions |-> NoSuggestions,
         statistics |-> NoStatistics,
         record_id |-> NoId, timestamp |-> 0, keywords |-> <<>>, i |-> 0,
         extracted |-> FALSE, llm_failed |-> FALSE, connected |-> FALSE,
         began |-> FALSE, pre |-> EmptyDb, committed |-> FALSE,
         outcome |-> "", stored |-> FALSE,
         seen |-> EmptyDb, result |-> {}, table_name |-> "",
         analysis_answer |-> "", plan |-> NoPlan, current_execution |-> FALSE]

NoWrite == [kind |-> "none", keywords |-> <<>>]

\* The write that committed last on id (NoWrite if there was none).
LastWrite(id) == IF id \in DOMAIN lastWrite THEN lastWrite[id] ELSE NoWrite

\* The history after write w committed on id.
Written(id, w) ==
    [x \in (DOMAIN lastWrite) \cup {id} |-> IF x = id THEN w ELSE lastWrite[x]]

Init ==
    /\ db = EmptyDb
    /\ writer = NoWriter
    /\ work = EmptyDb
    /\ call = [c \in Callers |-> Idle]
    /\ now = 1
    /\ ncalls = 0
    /\ lastWrite = [id \in {} |-> NoWrite]

(***************************************************************************)
(* The connection of caller c.                                             *)
(***************************************************************************)
\* What the connection of c reads: its own uncommitted changes if it is inside
\* a transaction, the committed database otherwise.
View(c) == IF writer = c THEN work ELSE db

\* The write lock is free for c (SQLite allows one writer; another connection
\* waits for busy_timeout and then raises "database is locked").
CanWrite(c) == writer \in {NoWriter, c}

\* c executes a DML statement that turns its view into d.
Execute(c, d) ==
    IF TransactionMode = "autocommit"
    THEN /\ db' = d
         /\ work' = d
         /\ UNCHANGED writer
    ELSE /\ work' = d
         /\ writer' = c
         /\ UNCHANGED db

\* conn.commit()
Commit(c) ==
    IF writer = c
    THEN /\ db' = work
         /\ writer' = NoWriter
         /\ UNCHANGED work
    ELSE UNCHANGED <<db, writer, work>>

\* conn.rollback(), or conn.close() with an open transaction
Rollback(c) ==
    IF writer = c
    THEN /\ work' = db
         /\ writer' = NoWriter
         /\ UNCHANGED db
    ELSE UNCHANGED <<db, writer, work>>

(***************************************************************************)
(* MemoryManager._extract_keywords                                         *)
(***************************************************************************)
KeywordLimit == 10

Take(s, n) == SubSeq(s, 1, IF Len(s) < n THEN Len(s) ELSE n)

\* The comma-separated pieces of an LLM answer after strip().lower(); the
\* empty string is a blank piece.
Pieces == Keywords \cup {""}
Answers == UNION {[1..n -> Pieces] : n \in 0..MaxKw}

\* [kw.strip().lower() for kw in keywords_text.split(',') if kw.strip()][:10]
ParseKeywords(answer) ==
    Take(SelectSeq(answer, LAMBDA piece : piece # ""), KeywordLimit)

\* re.findall(r'[\u4e00-\u9fff]+|[a-zA-Z]+', text): the alphabetic runs of a
\* text, in order.  The step texts "1", "2", ... hold no letters.
Words(text) ==
    CASE text = "qa" -> <<"k1", "K2", "x", "k1">>
      [] text = "find AI trends" -> <<"find", "AI", "trends">>
      [] text = "find AI news" -> <<"find", "AI", "news">>
      [] text = "AI trends" -> <<"AI", "trends">>
      [] text = "open browser" -> <<"open", "browser">>
      [] text = "search AI trends" -> <<"search", "AI", "trends">>
      [] text = "summarize" -> <<"summarize">>
      [] OTHER -> <<>>

\* str.lower()
Lower(word) ==
    CASE word = "AI" -> "ai"
      [] word = "K2" -> "k2"
      [] OTHER -> word

\* The runs of one letter.
ShortWords == {"x"}

\* (variant: runs of any length are kept)
LongEnoughAny(word) == TRUE

\* lines 91, 122: `len(kw) > 1`
LongEnough(word) == word \notin ShortWords

Range(s) == {s[i] : i \in DOMAIN s}

\* The lower-cased runs of f"{question} {' '.join(steps)}" (lines 98, 119-121).
QuestionTokens(question, steps) ==
    {Lower(w) : w \in {v \in Range(Words(question))
                              \cup UNION {Range(Words(steps[i])) : i \in DOMAIN steps} :
                          LongEnough(v)}}

\* All orderings of a finite set.
RECURSIVE Orderings(_)
Orderings(S) ==
    IF S = {} THEN {<<>>}
    ELSE UNION {{<<x>> \o l : l \in Orderings(S \ {x})} : x \in S}

\* list(set(...))[:10] of the fallback tokenizer: the tokens without
\* duplicates, in the arbitrary order of a Python set.
FallbackKeywords(question, steps) ==
    {Take(l, KeywordLimit) : l \in Orderings(QuestionTokens(question, steps))}

\* The answers of the LLM to the keyword prompt.  The worked example runs on
\* a MemoryManager built without an llm (the constructor's default, line 28):
\* line 86 then skips the LLM and the tokenizer of lines 87-91 answers.
LlmAnswers(question) == IF question \in ScenarioQuestions THEN {} ELSE Answers

\* An llm is configured (line 86) for every question but those of the worked
\* example.
HasLlm(question) == LlmAnswers(question) # {}

\* What _extract_keywords can return, with whether self.llm.ainvoke raised:
\* the parsed LLM answer (lines 93-114), or the tokenizer's list when there is
\* no llm (lines 86-91) or the LLM call raises (lines 116-122).
Extractions(question, steps) ==
    {[keywords |-> ParseKeywords(a), llm_failed |-> FALSE] :
        a \in LlmAnswers(question)}
    \cup {[keywords |-> l, llm_failed |-> HasLlm(question)] :
             l \in FallbackKeywords(question, steps)}

\* Every list _extract_keywords can return for the question.
ExtractKeywords(question, steps) ==
    {e.keywords : e \in Extractions(question, steps)}

(***************************************************************************)
(* Starting and ending a call.                                             *)
(***************************************************************************)
CanStart(c) == call[c].pc = "idle" /\ ncalls < MaxCalls

\* (variant: the threshold one star too low)
BelowThresholdLower(rating) == rating < 3

\* store_execution line 128: the admission test
BelowThreshold(rating) == rating < 4

\* process_rating line 31: the range test
OutOfRange(rating) == rating < 1 \/ rating > 5

\* process_rating line 45
ShouldStore(rating) == rating >= 4

\* store_execution returns a message to its caller.  Inside process_rating
\* (lines 47-57) any returned message sets stored = True.
StoreReturns(r, message) ==
    IF r.op = "process_rating"
    THEN [r EXCEPT !.outcome = message, !.stored = TRUE, !.pc = "pr_count"]
    ELSE [r EXCEPT !.outcome = message, !.pc = "done"]

\* store_execution raises.  process_rating catches it (lines 58-59) and leaves
\* stored = False; a direct caller gets the exception.
StoreRaises(r) ==
    IF r.op = "process_rating"
    THEN [r EXCEPT !.outcome = "raised", !.stored = FALSE, !.pc = "pr_count"]
    ELSE [r EXCEPT !.outcome = "raised", !.pc = "done"]

\* (variant: the keywords are extracted before the admission test)
EnterStoreExecutionExtractFirst(r) ==
    IF BelowThreshold(r.rating)
    THEN StoreReturns([r EXCEPT !.extracted = TRUE], "not_stored")
    ELSE [r EXCEPT !.timestamp = now,
                   !.record_id = _generate_record_id(r.question, now),
                   !.pc = "se_extract"]

\* store_execution up to its first suspension point (lines 128-135), run by
\* caller c whose call record is r.
EnterStoreExecution(r) ==
    IF BelowThreshold(r.rating)
    THEN StoreReturns(r, "not_stored")
    ELSE [r EXCEPT !.timestamp = now,
                   !.record_id = _generate_record_id(r.question, now),
                   !.pc = "se_extract"]

\* The success flags direct callers of store_execution pass (process_rating
\* passes rating >= 4, which is True for every admitted record).
DirectSuccess == {FALSE}

\* The step lists callers pass: texts without letters, "1", "2", ...
StepTexts == <<"1", "2", "3", "4", "5", "6", "7", "8", "9", "10", "11", "12",
               "13", "14", "15", "16", "17", "18", "19", "20", "21", "22",
               "23", "24", "25", "26", "27", "28", "29", "30">>
StepRun(first, n) == [i \in 1..n |-> StepTexts[first + i - 1]]
DirectSteps == {StepRun(1, 2)}

\* store_execution's default task_type (line 125).
TaskType == "unknown"

\* A caller invokes MemoryManager.store_execution directly.
CallStoreExecution(c) ==
    /\ CanStart(c)
    /\ \E q \in Questions, st \in DirectSteps, r \in Ratings, s \in DirectSuccess :
          call' = [call EXCEPT ![c] = EnterStoreExecution(
                      [Idle EXCEPT !.op = "store_execution", !.question = q,
                                   !.steps = st, !.rating = r, !.success = s])]
    /\ ncalls' = ncalls + 1
    /\ UNCHANGED <<db, writer, work, now, lastWrite>>

\* RatingSystem.process_rating up to its first suspension point (lines 31-47).
CallProcessRating(c) ==
    /\ CanStart(c)
    /\ \E q \in Questions, st \in DirectSteps, r \in Ratings :
          LET r0 == [Idle EXCEPT !.op = "process_rating", !.question = q,
                                 !.steps = st,
                                 !.rating = r, !.success = ShouldStore(r)]
          IN call' = [call EXCEPT ![c] =
                IF OutOfRange(r)
                THEN [r0 EXCEPT !.success = FALSE, !.outcome = "invalid",
                                !.stored = FALSE, !.pc = "done"]
                ELSE IF ShouldStore(r)
                THEN EnterStoreExecution(r0)
                ELSE [r0 EXCEPT !.outcome = "below_threshold", !.pc = "pr_count"]]
    /\ ncalls' = ncalls + 1
    /\ UNCHANGED <<db, writer, work, now, lastWrite>>

\* The caller consumes the returned value; the call record is dropped.
Return(c) ==
    /\ call[c].pc = "done"
    /\ call' = [call EXCEPT ![c] = Idle]
    /\ UNCHANGED <<db, writer, work, now, ncalls, lastWrite>>

\* Time passes: datetime.now() moves on (observed only by calls yet to start).
Tick ==
    /\ now < MaxTime
    /\ ncalls < MaxCalls
    /\ now' = now + 1
    /\ UNCHANGED <<db, writer, work, call, ncalls, lastWrite>>

(***************************************************************************)
(* MemoryManager.store_execution, lines 135-188.                           *)
(***************************************************************************)
InStore(c) == call[c].op \in {"store_execution", "process_rating"}

\* lines 135-156: the await on _extract_keywords completes, the record is
\* built and the connection is opened (connection and PRAGMAs are outside the
\* try block)
StoreExtract(c) ==
    /\ InStore(c) /\ call[c].pc = "se_extract"
    /\ \E e \in Extractions(call[c].question, call[c].steps) :
          call' = [call EXCEPT ![c].keywords = e.keywords,
                               ![c].llm_failed = e.llm_failed,
                               ![c].extracted = TRUE,
                               ![c].connected = TRUE, ![c].pc = "se_upsert"]
    /\ UNCHANGED <<db, writer, work, now, ncalls, lastWrite>>

\* as StoreExtract, but lines 152-155 raise (file not reachable, database
\* locked): the exception leaves store_execution
StoreConnectRaises(c) ==
    /\ InStore(c) /\ call[c].pc = "se_extract"
    /\ call' = [call EXCEPT ![c] =
                  StoreRaises([call[c] EXCEPT !.extracted = TRUE])]
    /\ UNCHANGED <<db, writer, work, now, ncalls, lastWrite>>

\* lines 160-169: INSERT OR REPLACE of the main record; opens the transaction
StoreUpsert(c) ==
    /\ InStore(c) /\ call[c].pc = "se_upsert"
    /\ CanWrite(c)
    /\ Execute(c, UpsertRecord(View(c), call[c].record_id,
                    ExecutionRecord(call[c].question, call[c].steps,
                                    call[c].rating, call[c].timestamp,
                                    TaskType, call[c].success,
                                    call[c].keywords)))
    /\ call' = [call EXCEPT ![c].began = TRUE, ![c].pre = db,
                            ![c].pc = "se_delete_index"]
    /\ UNCHANGED <<now, ncalls, lastWrite>>

\* (variant: the old index rows are not deleted)
StoreDeleteIndexSkipped(c) ==
    /\ InStore(c) /\ call[c].pc = "se_delete_index"
    /\ call' = [call EXCEPT ![c].i = 1,
                            ![c].pc = IF call[c].keywords = <<>>
                                      THEN "se_commit" ELSE "se_insert_index"]
    /\ UNCHANGED <<db, writer, work, now, ncalls, lastWrite>>

\* line 172: DELETE of the old index rows
StoreDeleteIndex(c) ==
    /\ InStore(c) /\ call[c].pc = "se_delete_index"
    /\ CanWrite(c)
    /\ Execute(c, DeleteIndexRows(View(c), call[c].record_id))
    /\ call' = [call EXCEPT ![c].i = 1,
                            ![c].pc = IF call[c].keywords = <<>>
                                      THEN "se_commit" ELSE "se_insert_index"]
    /\ UNCHANGED <<now, ncalls, lastWrite>>

\* lines 175-179: one iteration of the loop over keywords
StoreInsertIndex(c) ==
    /\ InStore(c) /\ call[c].pc = "se_insert_index"
    /\ CanWrite(c)
    /\ Execute(c, InsertIndexRow(View(c), call[c].record_id,
                                 call[c].keywords[call[c].i]))
    /\ call' = [call EXCEPT ![c].i = @ + 1,
                            ![c].pc = IF call[c].i = Len(call[c].keywords)
                                      THEN "se_commit" ELSE "se_insert_index"]
    /\ UNCHANGED <<now, ncalls, lastWrite>>

\* lines 181-182: conn.commit() and the success message
StoreCommit(c) ==
    /\ InStore(c) /\ call[c].pc = "se_commit"
    /\ Commit(c)
    /\ call' = [call EXCEPT ![c] =
                  StoreReturns([call[c] EXCEPT !.committed = TRUE], "stored")]
    /\ lastWrite' = Written(call[c].record_id,
                            [kind |-> "store", keywords |-> call[c].keywords])
    /\ UNCHANGED <<now, ncalls>>

\* A statement of lines 160-181 raises (I/O error, constraint violation, or
\* "database is locked" after busy_timeout); the statement itself has no effect.
StoreStatementRaises(c) ==
    /\ InStore(c)
    /\ call[c].pc \in {"se_upsert", "se_delete_index", "se_insert_index", "se_commit"}
    /\ call' = [call EXCEPT ![c].pc = "se_except"]
    /\ UNCHANGED <<db, writer, work, now, ncalls, lastWrite>>

\* (variant: the except branch commits what was written so far)
StoreExceptCommits(c) ==
    /\ InStore(c) /\ call[c].pc = "se_except"
    /\ Commit(c)
    /\ call' = [call EXCEPT ![c] = StoreReturns(call[c], "storage_failed")]
    /\ UNCHANGED <<now, ncalls, lastWrite>>

\* lines 184-188: the except branch rolls back and returns the failure message
StoreExcept(c) ==
    /\ InStore(c) /\ call[c].pc = "se_except"
    /\ Rollback(c)
    /\ call' = [call EXCEPT ![c] = StoreReturns(call[c], "storage_failed")]
    /\ UNCHANGED <<now, ncalls, lastWrite>>

(***************************************************************************)
(* MemoryManager.delete_record, lines 295-313.                             *)
(***************************************************************************)
\* lines 297-301: connection and PRAGMAs, outside the try block; they either
\* succeed or raise out of delete_record
CallDeleteRecord(c) ==
    /\ CanStart(c)
    /\ \E id \in DeletedIds, ok \in BOOLEAN :
          call' = [call EXCEPT ![c] =
              IF ok
              THEN [Idle EXCEPT !.op = "delete_record", !.record_id = id,
                                !.connected = TRUE, !.pc = "dr_delete_index"]
              ELSE [Idle EXCEPT !.op = "delete_record", !.record_id = id,
                                !.outcome = "raised", !.pc = "done"]]
    /\ ncalls' = ncalls + 1
    /\ UNCHANGED <<db, writer, work, now, lastWrite>>

\* line 304: DELETE FROM similarity_index; opens the transaction
DeleteIndex(c) ==
    /\ call[c].op = "delete_record" /\ call[c].pc = "dr_delete_index"
    /\ CanWrite(c)
    /\ Execute(c, DeleteIndexRows(View(c), call[c].record_id))
    /\ call' = [call EXCEPT ![c].began = TRUE, ![c].pre = db,
                            ![c].pc = "dr_delete_record"]
    /\ UNCHANGED <<now, ncalls, lastWrite>>

\* line 305: DELETE FROM execution_records
DeleteRecord(c) ==
    /\ call[c].op = "delete_record" /\ call[c].pc = "dr_delete_record"
    /\ CanWrite(c)
    /\ Execute(c, DeleteRecordRow(View(c), call[c].record_id))
    /\ call' = [call EXCEPT ![c].pc = "dr_commit"]
    /\ UNCHANGED <<now, ncalls, lastWrite>>

\* lines 306-307: conn.commit(); return True
DeleteCommit(c) ==
    /\ call[c].op = "delete_record" /\ call[c].pc = "dr_commit"
    /\ Commit(c)
    /\ call' = [call EXCEPT ![c].committed = TRUE, ![c].outcome = "deleted",
                            ![c].pc = "done"]
    /\ lastWrite' = Written(call[c].record_id,
                            [kind |-> "delete", keywords |-> <<>>])
    /\ UNCHANGED <<now, ncalls>>

\* a statement of lines 304-306 raises
DeleteStatementRaises(c) ==
    /\ call[c].op = "delete_record"
    /\ call[c].pc \in {"dr_delete_index", "dr_delete_record", "dr_commit"}
    /\ call' = [call EXCEPT ![c].pc = "dr_except"]
    /\ UNCHANGED <<db, writer, work, now, ncalls, lastWrite>>

\* lines 308-313: rollback; return False
DeleteExcept(c) ==
    /\ call[c].op = "delete_record" /\ call[c].pc = "dr_except"
    /\ Rollback(c)
    /\ call' = [call EXCEPT ![c].outcome = "delete_failed", ![c].pc = "done"]
    /\ UNCHANGED <<now, ncalls, lastWrite>>

(***************************************************************************)
(* Readers: find_similar_executions (190-253), get_all_records (255-293).  *)
(***************************************************************************)
\* (variant: the empty list is not tested)
NoKeywordsNever(kws) == FALSE

\* line 195: `if not current_keywords`
NoKeywords(kws) == kws = <<>>

\* COUNT(s.keyword) of lines 209, 217-220: the index rows of record id whose
\* keyword is one of the bound parameters kws.
MatchCount(d, id, kws) ==
    LET ks == Range(kws)
        RECURSIVE Sum(_)
        Sum(S) == IF S = {} THEN 0
                  ELSE LET k == CHOOSE x \in S : TRUE
                       IN IndexRows(d, id, k) + Sum(S \ {k})
    IN Sum(ks)

\* The ids of the rows of the SELECT of lines 207-224, before ORDER BY and
\* LIMIT: records joined to at least one index row whose keyword is in kws.
MatchingIds(d, kws) ==
    {id \in DOMAIN d.records :
        \E i \in DOMAIN kws : IndexRows(d, id, kws[i]) > 0}

\* (variant: four stars earn the same bonus as three)
RatingBonusFiveOnly(rating) == IF rating >= 5 THEN 6 ELSE 0

\* lines 214-216, in halves: CASE WHEN r.rating >= 5 THEN 3.0
\*                                WHEN r.rating >= 4 THEN 1.5 ELSE 0.0 END
RatingBonus(rating) == IF rating >= 5 THEN 6 ELSE IF rating >= 4 THEN 3 ELSE 0

\* lines 211-216, in halves: the weighted_score column
weighted_score(d, id, kws) ==
    2 * MatchCount(d, id, kws) + 4 * d.records[id].rating
        + (IF d.records[id].success THEN 2 ELSE 0)
        + RatingBonus(d.records[id].rating)

\* One row of the SELECT turned into an ExecutionRecord (lines 229-245), with
\* the match_count column kept beside the attached weighted_score.
Row(d, id, kws) ==
    [id |-> id,
     question |-> d.records[id].question,
     execution_steps |-> d.records[id].execution_steps,
     rating |-> d.records[id].rating,
     timestamp |-> d.records[id].timestamp,
     task_type |-> d.records[id].task_type,
     success |-> d.records[id].success,
     similarity_keywords |-> d.records[id].similarity_keywords,
     match_count |-> MatchCount(d, id, kws),
     weighted_score |-> weighted_score(d, id, kws)]

\* (variant: ORDER BY weighted_score ASC)
OrderedBeforeAscending(a, b) == a.weighted_score < b.weighted_score

\* line 222: ORDER BY weighted_score DESC, r.rating DESC, r.timestamp DESC --
\* row a must come before row b
OrderedBefore(a, b) ==
    \/ a.weighted_score > b.weighted_score
    \/ /\ a.weighted_score = b.weighted_score
       /\ \/ a.rating > b.rating
          \/ a.rating = b.rating /\ a.timestamp > b.timestamp

\* line 223: LIMIT ?
Limit(rows, limit) == Take(rows, limit)

\* The lists of rows the SELECT of lines 207-223 can return: the matching rows
\* in an order that respects ORDER BY (rows equal in all three keys come in
\* an order SQLite chooses), cut by LIMIT.
SelectSimilar(d, kws, limit) ==
    {Limit([i \in DOMAIN l |-> Row(d, l[i], kws)], limit) :
        l \in {m \in Orderings(MatchingIds(d, kws)) :
                  \A i, j \in DOMAIN m :
                      i < j => ~OrderedBefore(Row(d, m[j], kws), Row(d, m[i], kws))}}

(***************************************************************************)
(* StrategyStore.get_strategy_suggestions, strategy_store.py lines 12-95.  *)
(***************************************************************************)
\* line 31: the records that contribute
HighQuality(record) == record.rating >= 4 /\ record.success

\* lines 35-43, in fortieths: 3.0 / 1.5 / 1.0 times (1 + weighted_score / 10)
record_weight(record) ==
    (IF record.rating = 5 THEN 6 ELSE IF record.rating = 4 THEN 3 ELSE 2)
        * (IF record.weighted_score > 0 THEN 20 + record.weighted_score ELSE 20)

\* (variant: without the 0.2 offset)
base_confidenceNoOffset(record) == 4 * record.rating

\* line 55, in twenty-fifths: (rating / 5.0) * 0.8 + 0.2
base_confidence(record) == 4 * record.rating + 5

\* lines 30, 46-53: the steps of the contributing records, in the order of
\* the records, each with the weight of its record
RECURSIVE weighted_steps(_)
weighted_steps(records) ==
    IF records = <<>> THEN <<>>
    ELSE LET record == Head(records) IN
         (IF HighQuality(record)
          THEN [i \in DOMAIN record.execution_steps |->
                   [step |-> record.execution_steps[i],
                    weight |-> record_weight(record),
                    rating |-> record.rating,
                    record_id |-> record.id]]
          ELSE <<>>) \o weighted_steps(Tail(records))

\* lines 30-58: the contributing records, in the order of the records
high_quality_records(records) == SelectSeq(records, HighQuality)

\* (variant: the sort is ascending)
SortsBeforeAscending(a, b) == a.weight < b.weight

\* (variant: an item also moves in front of the items of its own weight)
SortsBeforeOrEqual(a, b) == a.weight >= b.weight

\* line 68: the key of the sort -- item a moves in front of item b
SortsBefore(a, b) == a.weight > b.weight

\* list.sort of line 68: stable, so items of equal weight keep their order
RECURSIVE SortByWeight(_)
SortByWeight(items) ==
    IF items = <<>> THEN <<>>
    ELSE LET n == Len(items)
             last == items[n]
             sorted == SortByWeight(SubSeq(items, 1, n - 1))
             \* last goes behind every item it does not sort before
             pos == Cardinality({i \in DOMAIN sorted : ~SortsBefore(last, sorted[i])})
         IN SubSeq(sorted, 1, pos) \o <<last>> \o SubSeq(sorted, pos + 1, n - 1)

\* line 78
MaxSuggestedSteps == 15

\* lines 71-79: keep the first occurrence of every step, stop at 15
RECURSIVE UniqueSteps(_, _)
UniqueSteps(items, unique_steps) ==
    IF items = <<>> THEN unique_steps
    ELSE IF Head(items).step \in Range(unique_steps)
         THEN UniqueSteps(Tail(items), unique_steps)
         ELSE IF Len(unique_steps) + 1 >= MaxSuggestedSteps
              THEN Append(unique_steps, Head(items).step)
              ELSE UniqueSteps(Tail(items), Append(unique_steps, Head(items).step))

\* sum(base_confidence * record_weight), in thousandths
RECURSIVE SumConfidence(_)
SumConfidence(records) ==
    IF records = <<>> THEN 0
    ELSE base_confidence(Head(records)) * record_weight(Head(records))
             + SumConfidence(Tail(records))

\* lines 85-87: min(avg * (1 + five_star_count * 0.1), 1.0), applied only when
\* a 5-star record contributes
FiveStarBoost(avg, five_star_count) ==
    IF five_star_count > 0
    THEN LET boosted == Frac(avg.num * (10 + five_star_count), avg.den * 10)
         IN IF FracLess(boosted, FracOne) THEN boosted ELSE FracOne
    ELSE avg

\* lines 81-89: the confidence over the contributing records
avg_confidence(records) ==
    LET hq == high_quality_records(records)
        five_star_count == Cardinality({i \in DOMAIN hq : hq[i].rating = 5})
    IN FiveStarBoost(Frac(SumConfidence(hq), 1000 * Len(hq)), five_star_count)

\* lines 16-95: the dict returned for the list find_similar_executions gave
StrategySuggestions(similar_records) ==
    IF similar_records = <<>>
    THEN [NoSuggestions EXCEPT !.message = "no_similar_records"]
    ELSE IF weighted_steps(similar_records) = <<>>
    THEN [NoSuggestions EXCEPT !.message = "quality_too_low"]
    ELSE [has_suggestions |-> TRUE, message |-> "suggestions",
          suggested_steps |->
              UniqueSteps(SortByWeight(weighted_steps(similar_records)), <<>>),
          confidence |-> avg_confidence(similar_records)]

(***************************************************************************)
(* MemoryManager.get_statistics, lines 315-360.                            *)
(***************************************************************************)
\* SELECT x, COUNT(*) ... GROUP BY x, as the dict built from its rows
CountBy(d, column) ==
    [v \in {d.records[id][column] : id \in DOMAIN d.records} |->
        Cardinality({id \in DOMAIN d.records : d.records[id][column] = v})]

\* SELECT AVG(CAST(success AS FLOAT)): NULL (den = 0) on an empty table
AvgSuccess(d) ==
    Frac(Cardinality({id \in DOMAIN d.records : d.records[id].success}),
         Cardinality(DOMAIN d.records))

\* (variant: the NULL of an empty table is passed on)
OrZeroMissing(x) == x

\* line 347: `cursor.fetchone()[0] or 0.0`
OrZero(x) == IF x.den = 0 \/ x.num = 0 THEN FracZero ELSE x

\* lines 323-354: the dict returned when no statement raises
get_statistics(d) ==
    [returned |-> TRUE,
     total_records |-> Cardinality(DOMAIN d.records),
     rating_distribution |-> CountBy(d, "rating"),
     task_type_distribution |-> CountBy(d, "task_type"),
     success_rate |-> OrZero(AvgSuccess(d))]

(***************************************************************************)
(* The calls of the readers.                                               *)
(***************************************************************************)
\* find_similar_executions(question, limit=3): the default of line 190
DefaultLimit == 3

\* The limits callers that pass one use: a short list, and the default.
Limits == {1, DefaultLimit}

\* get_strategy_suggestions asks for five records (strategy_store.py line 15)
SuggestionLimit == 5

InFind(c) == call[c].op \in {"find_similar_executions", "get_strategy_suggestions"}

\* find_similar_executions returns the list rows to its caller;
\* get_strategy_suggestions goes on with it (no await in between).
FindReturns(r, rows, outcome) ==
    LET r1 == [r EXCEPT !.rows = rows,
                        !.result = {rows[i].id : i \in DOMAIN rows},
                        !.outcome = outcome, !.pc = "done"]
    IN IF r.op = "get_strategy_suggestions"
       THEN [r1 EXCEPT !.suggestions = StrategySuggestions(rows)]
       ELSE r1

\* find_similar_executions(question, limit) up to its first suspension point
StartFindSimilar(c, limit) ==
    /\ CanStart(c)
    /\ \E q \in Questions :
          call' = [call EXCEPT ![c] =
              [Idle EXCEPT !.op = "find_similar_executions", !.question = q,
                           !.limit = limit, !.pc = "fs_extract"]]
    /\ ncalls' = ncalls + 1
    /\ UNCHANGED <<db, writer, work, now, lastWrite>>

\* A caller invokes find_similar_executions(question).
CallFindSimilar(c) == StartFindSimilar(c, DefaultLimit)

\* A caller invokes find_similar_executions(question, limit).
CallFindSimilarLimit(c) == \E limit \in Limits : StartFindSimilar(c, limit)

\* A caller invokes StrategyStore.get_strategy_suggestions, which calls
\* find_similar_executions(question, limit=5).
CallGetStrategySuggestions(c) ==
    /\ CanStart(c)
    /\ \E q \in Questions :
          call' = [call EXCEPT ![c] =
              [Idle EXCEPT !.op = "get_strategy_suggestions", !.question = q,
                           !.limit = SuggestionLimit, !.pc = "fs_extract"]]
    /\ ncalls' = ncalls + 1
    /\ UNCHANGED <<db, writer, work, now, lastWrite>>

\* lines 193-196: the await on _extract_keywords completes; an empty list
\* returns [] at once
FindExtract(c) ==
    /\ InFind(c) /\ call[c].pc = "fs_extract"
    /\ \E e \in Extractions(call[c].question, <<>>) :
          LET r == [call[c] EXCEPT !.keywords = e.keywords,
                                   !.llm_failed = e.llm_failed,
                                   !.extracted = TRUE]
          IN call' = [call EXCEPT ![c] =
                IF NoKeywords(e.keywords) THEN FindReturns(r, <<>>, "empty")
                ELSE [r EXCEPT !.pc = "fs_query"]]
    /\ UNCHANGED <<db, writer, work, now, ncalls, lastWrite>>

\* lines 198-247: connect and run the SELECT, one statement reading one
\* snapshot of the database
FindQuery(c) ==
    /\ InFind(c) /\ call[c].pc = "fs_query"
    /\ \E rows \in SelectSimilar(View(c), call[c].keywords, call[c].limit) :
          call' = [call EXCEPT ![c] =
              FindReturns([call[c] EXCEPT !.connected = TRUE, !.seen = View(c)],
                          rows, "rows")]
    /\ UNCHANGED <<db, writer, work, now, ncalls, lastWrite>>

\* the connection raises and the exception leaves the call (outcome
\* "raised"), or the SELECT raises and lines 249-251 return []
FindRaises(c) ==
    /\ InFind(c) /\ call[c].pc = "fs_query"
    /\ \E inTry \in BOOLEAN :
          call' = [call EXCEPT ![c] =
              IF inTry
              THEN FindReturns([call[c] EXCEPT !.connected = TRUE], <<>>,
                               "query_failed")
              ELSE [call[c] EXCEPT !.outcome = "raised", !.pc = "done"]]
    /\ UNCHANGED <<db, writer, work, now, ncalls, lastWrite>>

\* get_statistics: synchronous, four SELECTs on one connection; or a
\* statement raises and {} is returned
CallGetStatistics(c) ==
    /\ CanStart(c)
    /\ \E how \in {"rows", "query_failed"} :
          call' = [call EXCEPT ![c] =
              [Idle EXCEPT !.op = "get_statistics", !.connected = TRUE,
                           !.seen = IF how = "rows" THEN View(c) ELSE EmptyDb,
                           !.statistics = IF how = "rows"
                                          THEN get_statistics(View(c))
                                          ELSE NoStatistics,
                           !.outcome = how, !.pc = "done"]]
    /\ ncalls' = ncalls + 1
    /\ UNCHANGED <<db, writer, work, now, lastWrite>>

\* get_all_records: SELECT * FROM execution_records, one statement; or the
\* connection raises; or the SELECT raises and [] is returned
CallGetAllRecords(c) ==
    /\ CanStart(c)
    /\ \E how \in {"rows", "query_failed", "raised"} :
          call' = [call EXCEPT ![c] =
              [Idle EXCEPT !.op = "get_all_records",
                           !.connected = (how # "raised"),
                           !.seen = IF how = "rows" THEN View(c) ELSE EmptyDb,
                           !.result = IF how = "rows" THEN DOMAIN View(c).records ELSE {},
                           !.outcome = how, !.pc = "done"]]
    /\ ncalls' = ncalls + 1
    /\ UNCHANGED <<db, writer, work, now, lastWrite>>

\* process_rating lines 73-104: count the records with get_all_records and
\* return the outcome; a raising connection leaves process_rating
ProcessRatingCount(c) ==
    /\ call[c].op = "process_rating" /\ call[c].pc = "pr_count"
    /\ \E how \in {"rows", "query_failed", "raised"} :
          call' = [call EXCEPT
                      ![c].seen = IF how = "rows" THEN View(c) ELSE EmptyDb,
                      ![c].result = IF how = "rows" THEN DOMAIN View(c).records ELSE {},
                      ![c].outcome = IF how = "raised" THEN "pr_raised" ELSE @,
                      ![c].pc = "done"]
    /\ UNCHANGED <<db, writer, work, now, ncalls, lastWrite>>

(***************************************************************************)
(* Specification.                                                          *)
(***************************************************************************)
\* one step of a call of caller c
Step(c) ==
    \/ CallStoreExecution(c)
    \/ CallProcessRating(c)
    \/ CallDeleteRecord(c)
    \/ CallFindSimilar(c)
    \/ CallGetAllRecords(c)
    \/ StoreExtract(c)
    \/ StoreConnectRaises(c)
    \/ StoreUpsert(c)
    \/ StoreDeleteIndex(c)
    \/ StoreInsertIndex(c)
    \/ StoreCommit(c)
    \/ StoreStatementRaises(c)
    \/ StoreExcept(c)
    \/ DeleteIndex(c)
    \/ DeleteRecord(c)
    \/ DeleteCommit(c)
    \/ DeleteStatementRaises(c)
    \/ DeleteExcept(c)
    \/ FindExtract(c)
    \/ FindQuery(c)
    \/ FindRaises(c)
    \/ ProcessRatingCount(c)
    \/ Return(c)

\* Callers run concurrently: their steps interleave.
Next ==
    \/ Tick
    \/ \E c \in Callers : Step(c)

Spec == Init /\ [][Next]_vars

\* Sequential use: one caller issues its calls one after the other.
SeqNext ==
    \/ Tick
    \/ Step(1)

SeqSpec == Init /\ [][SeqNext]_vars

(***************************************************************************)
(* Queries on a store at rest: the database holds what earlier committed   *)
(* stores left, nobody writes, and one reader call runs.                   *)
(***************************************************************************)
\* What a committed store_execution leaves under an id: rating, success flag,
\* keyword list (an LLM answer may repeat a keyword) and steps.
StoredRatings == {4, 5}
StoredKeywords == {<<"k1">>, <<"k2">>, <<"k1", "k1">>, <<"k1", "k2">>,
                   <<"k1", "k1", "k1", "k1">>}
StoredSteps == {<<>>, StepRun(1, 2), <<"2", "3", "2">>,
                StepRun(1, MaxSuggestedSteps + 1),
                StepRun(10, MaxSuggestedSteps + 1)}
StoredIds == {_generate_record_id("qa", 1), _generate_record_id("qa", 2)}

\* The database after store_execution committed record recs[id] under every
\* id of DOMAIN recs (lines 160-181, on distinct ids).
StoreOf(recs) ==
    [records |-> recs,
     index |-> [p \in UNION {{<<id, k>> : k \in Range(recs[id].similarity_keywords)} :
                                 id \in DOMAIN recs} |->
                  Occurrences(recs[p[1]].similarity_keywords, p[2])]]

Stores ==
    {StoreOf([id \in DOMAIN f |->
                ExecutionRecord(id[1], f[id][3], f[id][1], id[2], TaskType,
                                f[id][2], f[id][4])]) :
        f \in UNION {[S -> StoredRatings \X BOOLEAN \X StoredSteps \X StoredKeywords] :
                        S \in SUBSET StoredIds}}

QueryInit ==
    /\ db \in Stores
    /\ writer = NoWriter
    /\ work = db
    /\ call = [c \in Callers |-> Idle]
    /\ now = MaxTime
    /\ ncalls = 0
    /\ lastWrite = [id \in DOMAIN db.records |->
                       [kind |-> "store",
                        keywords |-> db.records[id].similarity_keywords]]

QueryNext ==
    \/ ncalls = 0 /\ CallFindSimilarLimit(1)
    \/ ncalls = 0 /\ CallGetStrategySuggestions(1)
    \/ ncalls = 0 /\ CallGetStatistics(1)
    \/ FindExtract(1)
    \/ FindQuery(1)
    \/ FindRaises(1)

QuerySpec == QueryInit /\ [][QueryNext]_vars

(***************************************************************************)
(* The worked example: record A is stored with five stars, storing B is    *)
(* attempted with three, then the store is queried.                        *)
(***************************************************************************)
QuestionA == "find AI trends"
StepsA == <<"open browser", "search AI trends", "summarize">>
QuestionB == "find AI news"
StepsB == <<>>
QueryQuestion == "AI trends"

\* store_execution(question, steps, result, rating) with the default
\* success=True, as the n-th call of the example
ScenarioStore(c, n, question, steps, rating) ==
    /\ call[c].pc = "idle" /\ ncalls = n
    /\ call' = [call EXCEPT ![c] = EnterStoreExecution(
                  [Idle EXCEPT !.op = "store_execution", !.question = question,
                               !.steps = steps, !.rating = rating,
                               !.success = TRUE])]
    /\ ncalls' = ncalls + 1
    /\ UNCHANGED <<db, writer, work, now, lastWrite>>

ScenarioStoreA(c) == ScenarioStore(c, 0, QuestionA, StepsA, 5)
ScenarioStoreB(c) == ScenarioStore(c, 1, QuestionB, StepsB, 3)

\* the query of the example, through either entry point
ScenarioQuery(c) ==
    /\ call[c].pc = "idle" /\ ncalls = 2
    /\ \E op \in {"find_similar_executions", "get_strategy_suggestions"} :
       \E limit \in IF op = "find_similar_executions" THEN Limits
                                                      ELSE {SuggestionLimit} :
          call' = [call EXCEPT ![c] =
              [Idle EXCEPT !.op = op, !.question = QueryQuestion,
                           !.limit = limit, !.pc = "fs_extract"]]
    /\ ncalls' = ncalls + 1
    /\ UNCHANGED <<db, writer, work, now, lastWrite>>

ScenarioNext ==
    \/ ScenarioStoreA(1)
    \/ ScenarioStoreB(1)
    \/ ScenarioQuery(1)
    \/ StoreExtract(1)
    \/ StoreConnectRaises(1)
    \/ StoreUpsert(1)
    \/ StoreDeleteIndex(1)
    \/ StoreInsertIndex(1)
    \/ StoreCommit(1)
    \/ StoreStatementRaises(1)
    \/ StoreExcept(1)
    \/ FindExtract(1)
    \/ FindQuery(1)
    \/ FindRaises(1)
    \/ Return(1)

ScenarioSpec == Init /\ [][ScenarioNext]_vars

(***************************************************************************)
(* Properties.                                                             *)
(***************************************************************************)
Done(c) == call[c].pc = "done"

IsStore(c) == call[c].op = "store_execution"
IsRating(c) == call[c].op = "process_rating"
IsDelete(c) == call[c].op = "delete_record"
IsFind(c) == call[c].op = "find_similar_executions"
IsGetAll(c) == call[c].op = "get_all_records"

\* the number of index rows (k, id) in database d
Rows(d, id, k) == IndexRows(d, id, k)

\* every index row references an existing record
RefIntegrity(d) ==
    \A p \in DOMAIN d.index : d.index[p] > 0 => HasRecord(d, p[1])

\* every record has exactly the index rows of its keyword list
FullIndex(d) ==
    \A id \in DOMAIN d.records, k \in AllKeywords :
        Rows(d, id, k) = Occurrences(d.records[id].similarity_keywords, k)

\* C1: every record in execution_records has rating >= 4, and so has every
\* record returned by find_similar_executions or get_all_records.
C1_OnlyAdmittedRecords ==
    /\ \A id \in DOMAIN db.records : db.records[id].rating >= 4
    /\ \A c \in Callers :
          Done(c) /\ (IsFind(c) \/ IsGetAll(c)) =>
              \A id \in call[c].result : call[c].seen.records[id].rating >= 4

\* a 3-star store_execution has returned while the store holds a record
C1_Witness ==
    \E c \in Callers :
        /\ Done(c) /\ IsStore(c) /\ call[c].rating = 3
        /\ DOMAIN db.records # {}

\* C2: store_execution with rating < 4 returns the not-stored message, never
\* calls the keyword extractor and never touches the two tables.
C2_BelowThresholdNoEffect ==
    \A c \in Callers :
        Done(c) /\ IsStore(c) /\ call[c].rating < 4 =>
            /\ call[c].outcome = "not_stored"
            /\ ~call[c].extracted
            /\ ~call[c].connected /\ ~call[c].began /\ ~call[c].committed

\* a store_execution below the threshold has returned
C2_Witness ==
    \E c \in Callers :
        Done(c) /\ IsStore(c) /\ call[c].rating < 4 /\ call[c].outcome = "not_stored"

\* C3: a rating outside [1,5] is rejected before any side effect, through
\* process_rating and through store_execution, so every stored rating is in
\* [1,5].
C3_OutOfRangeRejected ==
    /\ \A c \in Callers :
          Done(c) /\ (IsStore(c) \/ IsRating(c))
                  /\ (call[c].rating < 1 \/ call[c].rating > 5) =>
              ~call[c].extracted /\ ~call[c].connected /\ ~call[c].committed
    /\ \A id \in DOMAIN db.records : db.records[id].rating \in 1..5

\* C4: every row of similarity_index references a record that exists.
C4_ReferentialIntegrity == RefIntegrity(db)

\* a delete_record failed after its first DELETE and was rolled back, and the
\* record it targeted still has its index rows
C4_Witness ==
    \E c \in Callers :
        /\ Done(c) /\ IsDelete(c) /\ call[c].outcome = "delete_failed"
        /\ call[c].began
        /\ \E k \in AllKeywords : Rows(db, call[c].record_id, k) > 0

\* C5: a store_execution whose insert fails leaves both tables as they were
\* when its transaction began, and no record is ever committed without its
\* full set of index rows.
C5_FailedStoreRolledBack ==
    /\ []FullIndex(db)
    /\ [][\A c \in Callers :
            (InStore(c) /\ call[c].pc = "se_except" /\ call'[c].pc # "se_except") =>
                db' = (IF call[c].began THEN call[c].pre ELSE db)]_vars

\* a store failed after inserting one of its two index rows
C5_Witness ==
    \E c \in Callers :
        /\ call[c].outcome = "storage_failed" /\ call[c].began
        /\ Len(call[c].keywords) = 2 /\ call[c].i = 2

\* C6: when a store commits, the record with its id holds exactly the values
\* of that call and the index rows of the id are exactly that call's keywords,
\* whatever was stored under the id before.
C6_RestoreReplaces ==
    [][\A c \in Callers :
          (InStore(c) /\ call[c].pc = "se_commit" /\ call'[c].committed) =>
              LET id == call[c].record_id IN
              /\ HasRecord(db', id)
              /\ db'.records[id] =
                    ExecutionRecord(call[c].question, call[c].steps,
                                    call[c].rating, call[c].timestamp,
                                    TaskType, call[c].success,
                                    call[c].keywords)
              /\ \A k \in AllKeywords :
                    Rows(db', id, k) = Occurrences(call[c].keywords, k)]_vars

\* a store has committed on an id under which a record with other keywords,
\* and index rows, was stored when its transaction began
C6_Witness ==
    \E c \in Callers :
        LET id == call[c].record_id IN
        /\ Done(c) /\ InStore(c) /\ call[c].committed
        /\ HasRecord(call[c].pre, id)
        /\ call[c].pre.records[id].similarity_keywords # call[c].keywords
        /\ call[c].pre.records[id].rating # call[c].rating
        /\ \E k \in AllKeywords :
              /\ Rows(call[c].pre, id, k) > 0
              /\ Occurrences(call[c].keywords, k) = 0

\* C7: process_rating returns stored = true exactly when the record was
\* committed.
C7_StoredIffCommitted ==
    \A c \in Callers :
        Done(c) /\ IsRating(c) /\ call[c].outcome # "pr_raised" =>
            (call[c].stored <=> call[c].committed)

\* C8: what a reader saw is a state in which every record has its full set of
\* index rows and every index row has its record.
C8_ReadersSeeWholeTransactions ==
    \A c \in Callers :
        Done(c) /\ (IsFind(c) \/ IsGetAll(c) \/ IsRating(c)) =>
            RefIntegrity(call[c].seen) /\ FullIndex(call[c].seen)

\* a reader returned rows while another caller is inside a transaction that
\* has written
C8_Witness ==
    \E c1, c2 \in Callers :
        /\ Done(c1) /\ (IsFind(c1) \/ IsGetAll(c1)) /\ call[c1].outcome = "rows"
        /\ writer = c2 /\ work # db
        /\ call[c1].seen = db

\* C9: for every id, the index rows are exactly the keywords of the write on
\* that id that committed last, and there are none if it was a delete.
C9_WritesSerialized ==
    \A id \in RecordIds :
        LET w == LastWrite(id) IN
        /\ w.kind = "store" =>
              /\ HasRecord(db, id)
              /\ db.records[id].similarity_keywords = w.keywords
              /\ \A k \in AllKeywords : Rows(db, id, k) = Occurrences(w.keywords, k)
        /\ w.kind # "store" =>
              /\ ~HasRecord(db, id)
              /\ \A k \in AllKeywords : Rows(db, id, k) = 0

\* one writer has run all its statements on an id and holds the write lock
\* while another writer on the same id, with other keywords, is at its first
\* statement
C9_Witness ==
    \E c1, c2 \in Callers :
        /\ c1 # c2
        /\ writer = c1 /\ call[c1].pc \in {"se_commit", "dr_commit"}
        /\ call[c2].pc \in {"se_upsert", "dr_delete_index"}
        /\ call[c1].record_id = call[c2].record_id
        /\ call[c1].keywords # call[c2].keywords

\* C10: find_similar_executions with an empty keyword list returns [] without
\* opening a connection.
C10_EmptyQueryShortCircuit ==
    \A c \in Callers :
        Done(c) /\ IsFind(c) /\ call[c].extracted /\ call[c].keywords = <<>> =>
            /\ call[c].result = {}
            /\ ~call[c].connected
            /\ call[c].outcome = "empty"

\* a find_similar_executions whose extractor returned no keyword has returned
C10_Witness ==
    \E c \in Callers :
        Done(c) /\ IsFind(c) /\ call[c].extracted /\ call[c].keywords = <<>>

(***************************************************************************)
(* Ranking: find_similar_executions on a store at rest.                    *)
(***************************************************************************)
\* a find_similar_executions (called directly or by
\* get_strategy_suggestions) has returned without a failing statement
Ranked(c) == Done(c) /\ InFind(c) /\ call[c].outcome \in {"rows", "empty"}

IsSuggest(c) == call[c].op = "get_strategy_suggestions"

\* The keywords the record stored under id shares with the query.
SharedKeywords(d, id, kws) ==
    Range(d.records[id].similarity_keywords) \cap Range(kws)

\* The stored records that share at least one keyword with the query.
Sharing(d, kws) == {id \in DOMAIN d.records : SharedKeywords(d, id, kws) # {}}

\* (score, rating, timestamp) of a is not below that of b, lexicographically
KeyGeq(a, b) ==
    \/ a[1] > b[1]
    \/ a[1] = b[1] /\ a[2] > b[2]
    \/ a[1] = b[1] /\ a[2] = b[2] /\ a[3] >= b[3]

RowKey(row) == <<row.weighted_score, row.rating, row.timestamp>>

Min(a, b) == IF a < b THEN a ELSE b

\* C11: find_similar_executions(question, limit) returns the first `limit`
\* elements of the list of all stored records sharing a keyword with the
\* query, sorted by score, then rating, then timestamp, all descending: every
\* returned record shares a keyword, no record is returned twice, there are
\* min(limit, number of sharing records) of them, they are in that order, and
\* no record left out sorts before a returned one.
C11_FirstLimitOfSorted ==
    \A c \in Callers :
        Ranked(c) =>
            LET d == IF call[c].outcome = "rows" THEN call[c].seen ELSE db
                kws == call[c].keywords
                rows == call[c].rows
                left == Sharing(d, kws) \ {rows[i].id : i \in DOMAIN rows}
            IN /\ \A i \in DOMAIN rows : rows[i].id \in Sharing(d, kws)
               /\ \A i, j \in DOMAIN rows : i # j => rows[i].id # rows[j].id
               /\ Len(rows) = Min(call[c].limit, Cardinality(Sharing(d, kws)))
               /\ \A i, j \in DOMAIN rows :
                     i < j => KeyGeq(RowKey(rows[i]), RowKey(rows[j]))
               /\ \A i \in DOMAIN rows : \A id \in left :
                     KeyGeq(RowKey(rows[i]),
                            <<weighted_score(d, id, kws), d.records[id].rating,
                              d.records[id].timestamp>>)

\* a query with limit 1 on a store where two records share a keyword with it
\* has returned one record
C11_Witness ==
    \E c \in Callers :
        /\ Ranked(c) /\ call[c].outcome = "rows"
        /\ call[c].limit = 1 /\ Len(call[c].rows) = 1
        /\ Cardinality(Sharing(call[c].seen, call[c].keywords)) = 2

C13_MatchCountDistinct ==
    \A c \in Callers :
        Ranked(c) =>
            \A i \in DOMAIN call[c].rows :
                call[c].rows[i].match_count =
                    Cardinality(SharedKeywords(call[c].seen, call[c].rows[i].id,
                                               call[c].keywords))

\* C14: of two stored records that match the same number of query keywords,
\* one rated 5 and one rated 4, the one rated 5 is ranked first: if the
\* 4-star record is returned, the 5-star record is returned before it.
C14_FiveStarBeforeFourStar ==
    \A c \in Callers :
        Ranked(c) /\ call[c].outcome = "rows" =>
            LET d == call[c].seen
                kws == call[c].keywords
                rows == call[c].rows
            IN \A a, b \in Sharing(d, kws) :
                  ( /\ d.records[a].rating = 5 /\ d.records[b].rating = 4
                    /\ Cardinality(SharedKeywords(d, a, kws))
                          = Cardinality(SharedKeywords(d, b, kws)) )
                  => \A j \in DOMAIN rows :
                        rows[j].id = b => \E i \in 1..(j - 1) : rows[i].id = a

(***************************************************************************)
(* The strategy synthesizer: get_strategy_suggestions on a store at rest.  *)
(***************************************************************************)
\* a get_strategy_suggestions has returned a dict built from the rows of its
\* query
Suggested(c) == Done(c) /\ IsSuggest(c) /\ call[c].outcome = "rows"

\* The confidence get_strategy_suggestions returns for keywords kws on store d.
ConfidencesOn(d, kws) ==
    {StrategySuggestions(rows).confidence :
        rows \in SelectSimilar(d, kws, SuggestionLimit)}

\* C15: the confidence get_strategy_suggestions returns lies in [0.0, 1.0],
\* for every store content and query.
C15_ConfidenceInUnitInterval ==
    \A c \in Callers :
        Done(c) /\ IsSuggest(c) =>
            /\ FracLeq(FracZero, call[c].suggestions.confidence)
            /\ FracLeq(call[c].suggestions.confidence, FracOne)

\* C16: when all contributing records are rated 4, the confidence is strictly
\* lower than the confidence for the same records with one contributing
\* 5-star record added.
C16_FiveStarAddedRaisesConfidence ==
    \A c \in Callers :
        ( /\ Suggested(c)
          /\ high_quality_records(call[c].rows) # <<>>
          /\ \A i \in DOMAIN call[c].rows :
                HighQuality(call[c].rows[i]) => call[c].rows[i].rating = 4 )
        => LET d == call[c].seen
               kws == call[c].keywords
           IN \A id \in StoredIds \ DOMAIN d.records :
              \A steps \in StoredSteps, keywords \in StoredKeywords :
                 Range(keywords) \cap Range(kws) # {} =>
                    LET added == ExecutionRecord(id[1], steps, 5, id[2],
                                                 TaskType, TRUE, keywords)
                        d2 == StoreOf([x \in (DOMAIN d.records) \cup {id} |->
                                         IF x = id THEN added ELSE d.records[x]])
                    IN \A confidence \in ConfidencesOn(d2, kws) :
                          FracLess(call[c].suggestions.confidence, confidence)

\* C17: raising the rating of one contributing record from 4 to 5, or raising
\* its match count, with the other records unchanged, never lowers the
\* confidence.
C17_ConfidenceMonotonic ==
    \A c \in Callers :
        Suggested(c) =>
            LET d == call[c].seen
                kws == call[c].keywords
                rows == call[c].rows
            IN \A i \in DOMAIN rows :
                  HighQuality(rows[i]) =>
                     LET id == rows[i].id IN
                     /\ rows[i].rating = 4 =>
                           \A confidence \in
                                 ConfidencesOn(StoreOf([d.records EXCEPT ![id].rating = 5]), kws) :
                              FracLeq(call[c].suggestions.confidence, confidence)
                     /\ \A keywords \in StoredKeywords :
                           LET d3 == StoreOf([d.records EXCEPT
                                                 ![id].similarity_keywords = keywords])
                           IN MatchCount(d3, id, kws) > rows[i].match_count =>
                                 \A confidence \in ConfidencesOn(d3, kws) :
                                    FracLeq(call[c].suggestions.confidence, confidence)

\* The contributing records of a list that hold the step.
Holding(rows, step) ==
    {i \in DOMAIN rows : HighQuality(rows[i])
                            /\ step \in Range(rows[i].execution_steps)}

\* The highest weight of a contributing record that holds the step.
TopWeight(rows, step) ==
    LET i == CHOOSE x \in Holding(rows, step) :
                \A y \in Holding(rows, step) :
                    record_weight(rows[x]) >= record_weight(rows[y])
    IN record_weight(rows[i])

\* The distinct steps of the contributing records.
ContributedSteps(rows) ==
    UNION {Range(rows[i].execution_steps) :
              i \in {x \in DOMAIN rows : HighQuality(rows[x])}}

\* C18: suggested_steps holds no step text twice and at most 15 entries; a
\* step held by several records is kept at the place of its occurrence with
\* the highest record weight: the steps come in descending order of the
\* highest weight of a record holding them, and no step left out has a higher
\* such weight than a step kept.
C18_StepsUniqueCappedByWeight ==
    \A c \in Callers :
        Suggested(c) =>
            LET rows == call[c].rows
                steps == call[c].suggestions.suggested_steps
                left == ContributedSteps(rows) \ Range(steps)
            IN /\ \A i, j \in DOMAIN steps : i # j => steps[i] # steps[j]
               /\ Len(steps) = Min(15, Cardinality(ContributedSteps(rows)))
               /\ Range(steps) \subseteq ContributedSteps(rows)
               /\ \A i, j \in DOMAIN steps :
                     i < j => TopWeight(rows, steps[i]) >= TopWeight(rows, steps[j])
               /\ \A i \in DOMAIN steps : \A step \in left :
                     TopWeight(rows, steps[i]) >= TopWeight(rows, step)

\* two contributing records of different weight hold more than 15 distinct
\* steps, some of them in common, and 15 steps were suggested
C18_Witness ==
    \E c \in Callers :
        /\ Suggested(c)
        /\ Len(call[c].suggestions.suggested_steps) = 15
        /\ Cardinality(ContributedSteps(call[c].rows)) > 15
        /\ \E i, j \in DOMAIN call[c].rows :
              /\ HighQuality(call[c].rows[i]) /\ HighQuality(call[c].rows[j])
              /\ record_weight(call[c].rows[i]) # record_weight(call[c].rows[j])
              /\ Range(call[c].rows[i].execution_steps)
                    \cap Range(call[c].rows[j].execution_steps) # {}

(***************************************************************************)
(* The worked example.                                                     *)
(***************************************************************************)
\* the query of the example has returned from a store that holds record A
ExampleQueried(c) ==
    /\ Done(c) /\ InFind(c) /\ call[c].outcome = "rows"
    /\ call[c].question = QueryQuestion
    /\ \E id \in DOMAIN call[c].seen.records :
          call[c].seen.records[id].question = QuestionA

\* C19: after A ('find AI trends', 5 stars, steps 'open browser', 'search AI
\* trends', 'summarize') was stored and storing B ('find AI news', 3 stars)
\* was attempted, the query 'AI trends' makes find_similar_executions return
\* only A, and get_strategy_suggestions return A's three steps in order with
\* a confidence above 0.8.
C19_WorkedExample ==
    \A c \in Callers :
        ExampleQueried(c) =>
            /\ Len(call[c].rows) = 1
            /\ call[c].rows[1].question = QuestionA
            /\ call[c].rows[1].rating = 5
            /\ IsSuggest(c) =>
                  /\ call[c].suggestions.has_suggestions
                  /\ call[c].suggestions.suggested_steps = StepsA
                  /\ FracLess(Frac(8, 10), call[c].suggestions.confidence)

\* get_strategy_suggestions('AI trends') has returned after A was stored and
\* storing B was attempted
C19_Witness ==
    \E c \in Callers : ExampleQueried(c) /\ IsSuggest(c) /\ ncalls = 3

(***************************************************************************)
(* Statistics.                                                             *)
(***************************************************************************)
IsStatistics(c) == call[c].op = "get_statistics"

LongRuns(c) ==
    {w \in Range(Words(call[c].question))
              \cup (IF InStore(c)
                    THEN UNION {Range(Words(call[c].steps[i])) :
                                   i \in DOMAIN call[c].steps}
                    ELSE {}) :
        w \notin ShortWords}

\* The keyword list of the call is a fallback list: lower-cased runs of more
\* than one letter, none twice, at most ten, and all of them when they fit.
IsFallbackList(c) ==
    LET kws == call[c].keywords
        tokens == {Lower(w) : w \in LongRuns(c)}
    IN /\ \A i, j \in DOMAIN kws : i # j => kws[i] # kws[j]
       /\ Len(kws) <= 10
       /\ \A i \in DOMAIN kws : kws[i] \in tokens
       /\ Cardinality(tokens) <= 10 => tokens \subseteq Range(kws)

\* C21: when the LLM keyword call raises, _extract_keywords returns the
\* fallback tokenizer's list (lower-cased runs of more than one letter, no
\* duplicates, at most 10) and the failure is not surfaced: the store goes on
\* to write its record and the search goes on to run its query.
C21_LlmFailureFallsBack ==
    /\ [](\A c \in Callers : call[c].llm_failed => IsFallbackList(c))
    /\ [][\A c \in Callers :
            (~call[c].llm_failed /\ call'[c].llm_failed) =>
                /\ call'[c].outcome = ""
                /\ InStore(c) => call'[c].pc = "se_upsert"
                /\ InFind(c) => call'[c].pc = "fs_query"]_vars

\* after the LLM raised, a store committed its record under the tokenizer's
\* two keywords, the one-letter run and the repeat dropped
C21_Witness ==
    \E c \in Callers :
        /\ Done(c) /\ IsStore(c) /\ call[c].llm_failed /\ call[c].committed
        /\ Len(call[c].keywords) = 2
        /\ HasRecord(db, call[c].record_id)
        /\ db.records[call[c].record_id].similarity_keywords = call[c].keywords

\* delete_record called once on a store at rest.
DeleteNext ==
    \/ ncalls = 0 /\ CallDeleteRecord(1)
    \/ DeleteIndex(1)
    \/ DeleteRecord(1)
    \/ DeleteCommit(1)
    \/ DeleteStatementRaises(1)
    \/ DeleteExcept(1)

DeleteSpec == QueryInit /\ [][DeleteNext]_vars

\* The store d holds for id what the store e holds: the same record or none,
\* and the same index rows.
SameAbout(d, e, id) ==
    /\ HasRecord(d, id) <=> HasRecord(e, id)
    /\ HasRecord(d, id) => d.records[id] = e.records[id]
    /\ \A k \in AllKeywords : IndexRows(d, id, k) = IndexRows(e, id, k)

\* C22: delete_record(id) removes the record and all its index rows in one
\* transaction: when it commits and returns True neither table contains the
\* id and every other record and its index rows are as before; when a
\* statement fails both deletions are rolled back and it returns False.
C22_DeleteRecordFrame ==
    [][\A c \in Callers : IsDelete(c) =>
          /\ (call[c].pc = "dr_commit" /\ call'[c].pc = "done") =>
                /\ call'[c].outcome = "deleted"
                /\ ~HasRecord(db', call[c].record_id)
                /\ \A k \in AllKeywords : IndexRows(db', call[c].record_id, k) = 0
                /\ \A id \in RecordIds \ {call[c].record_id} :
                        SameAbout(db', call[c].pre, id)
          /\ (call[c].pc = "dr_except" /\ call'[c].pc = "done") =>
                /\ call'[c].outcome = "delete_failed"
                /\ db' = (IF call[c].began THEN call[c].pre ELSE db)
                /\ work' = db']_vars

\* a record with index rows was deleted from a store that holds another
\* record with index rows
C22_Witness ==
    \E c \in Callers :
        /\ Done(c) /\ IsDelete(c) /\ call[c].outcome = "deleted"
        /\ HasRecord(call[c].pre, call[c].record_id)
        /\ \E k \in Keywords : IndexRows(call[c].pre, call[c].record_id, k) > 0
        /\ \E id \in DOMAIN db.records :
              \E k \in Keywords : IndexRows(db, id, k) > 0

\* The positions of the contributing records in a ranked list.
Contributing(rows) ==
    {i \in DOMAIN rows : rows[i].rating >= 4 /\ rows[i].success}

\* ((rating/5.0)*0.8 + 0.2) * weight in thousandths, the score being in
\* halves: (4*rating + 5)/25 times (6 or 3)/2 times (20 + score)/20.
Contribution(row) ==
    (4 * row.rating + 5)
        * (IF row.rating = 5 THEN 6 ELSE 3)
        * (IF row.weighted_score > 0 THEN 20 + row.weighted_score ELSE 20)

RECURSIVE SumContributions(_, _)
SumContributions(rows, S) ==
    IF S = {} THEN 0
    ELSE LET i == CHOOSE x \in S : TRUE
         IN Contribution(rows[i]) + SumContributions(rows, S \ {i})

StepOccurrences(rows) ==
    UNION {{<<i, j>> : j \in DOMAIN rows[i].execution_steps} :
              i \in Contributing(rows)}

StepAt(rows, o) == rows[o[1]].execution_steps[o[2]]

\* Occurrence o1 comes before occurrence o2: its record weighs more or, at
\* equal weight, it is earlier in the ranker's order and then in its record.
ComesBefore(rows, o1, o2) ==
    LET w1 == record_weight(rows[o1[1]])
        w2 == record_weight(rows[o2[1]])
    IN \/ w1 > w2
       \/ w1 = w2 /\ o1[1] < o2[1]
       \/ w1 = w2 /\ o1[1] = o2[1] /\ o1[2] < o2[2]

\* The occurrence of a step that comes before all its other occurrences.
KeptOccurrence(rows, step) ==
    CHOOSE o \in StepOccurrences(rows) :
        /\ StepAt(rows, o) = step
        /\ \A o2 \in StepOccurrences(rows) \ {o} :
              StepAt(rows, o2) = step => ComesBefore(rows, o, o2)

\* C24: suggested_steps is in non-increasing order of the record weight of
\* the kept occurrence of each step, and steps of equal weight come in the
\* ranker's order of their records and, within one record, in the record's
\* own step order.
C24_StepsStableByWeight ==
    \A c \in Callers :
        (Suggested(c) /\ call[c].suggestions.has_suggestions) =>
            LET rows == call[c].rows
                steps == call[c].suggestions.suggested_steps
            IN /\ Range(steps) \subseteq
                     {StepAt(rows, o) : o \in StepOccurrences(rows)}
               /\ \A a, b \in DOMAIN steps :
                     a < b => ComesBefore(rows, KeptOccurrence(rows, steps[a]),
                                          KeptOccurrence(rows, steps[b]))

\* two contributing records of equal weight: the first in the ranker's order
\* gave the first two suggested steps, in its own order, and the second
\* record gave a later one
C24_Witness ==
    \E c \in Callers :
        /\ Suggested(c) /\ call[c].suggestions.has_suggestions
        /\ LET rows == call[c].rows
               steps == call[c].suggestions.suggested_steps
           IN /\ Len(rows) = 2 /\ Contributing(rows) = {1, 2}
              /\ record_weight(rows[1]) = record_weight(rows[2])
              /\ Len(steps) >= 3
              /\ KeptOccurrence(rows, steps[1]) = <<1, 1>>
              /\ KeptOccurrence(rows, steps[2]) = <<1, 2>>
              /\ KeptOccurrence(rows, steps[3])[1] = 2

\* Stores holding one successful record and up to five unsuccessful ones,
\* all stored for the question "qa" under the keyword k1 at different times.
CrowdTimes == 1..(SuggestionLimit + 1)
CrowdIds == {_generate_record_id("qa", t) : t \in CrowdTimes}

\* The successful record is the oldest or the newest of the store.
GoodIds == {_generate_record_id("qa", 1),
            _generate_record_id("qa", SuggestionLimit + 1)}

CrowdStores ==
    UNION {{StoreOf([id \in DOMAIN f |->
                       ExecutionRecord(id[1], StepRun(1, 2), f[id], id[2],
                                       TaskType, id = good, <<"k1">>)]) :
               f \in UNION {[S \cup {good} -> StoredRatings] :
                               S \in SUBSET CrowdIds}} :
              good \in GoodIds}

CrowdInit ==
    /\ db \in CrowdStores
    /\ writer = NoWriter
    /\ work = db
    /\ call = [c \in Callers |-> Idle]
    /\ now = SuggestionLimit + 1
    /\ ncalls = 0
    /\ lastWrite = [id \in DOMAIN db.records |->
                       [kind |-> "store",
                        keywords |-> db.records[id].similarity_keywords]]

\* get_strategy_suggestions called once on such a store.
CrowdNext ==
    \/ ncalls = 0 /\ CallGetStrategySuggestions(1)
    \/ FindExtract(1)
    \/ FindQuery(1)
    \/ FindRaises(1)

CrowdSpec == CrowdInit /\ [][CrowdNext]_vars

\* C25: when the store holds a record that shares a keyword with the query
\* and has rating >= 4, success = true and at least one step,
\* get_strategy_suggestions returns has_suggestions = true and a non-empty
\* suggested_steps, however many matching unsuccessful records the store
\* holds.
C25_GoodRecordAlwaysSuggested ==
    \A c \in Callers :
        ( /\ Suggested(c)
          /\ \E id \in DOMAIN call[c].seen.records :
                LET record == call[c].seen.records[id] IN
                /\ record.rating >= 4 /\ record.success
                /\ record.execution_steps # <<>>
                /\ \E i \in DOMAIN call[c].keywords :
                      IndexRows(call[c].seen, id, call[c].keywords[i]) > 0 )
        => /\ call[c].suggestions.has_suggestions
           /\ call[c].suggestions.suggested_steps # <<>>

\* C30: every record committed by store_execution has at least one
\* similarity_index row, so that some query makes find_similar_executions
\* return it.
C30_StoredRecordIndexed ==
    \A id \in DOMAIN db.records :
        /\ \E k \in AllKeywords : IndexRows(db, id, k) > 0
        /\ \E kws \in {<<k>> : k \in AllKeywords} : id \in MatchingIds(db, kws)

(***************************************************************************)
(* The database editors, memory_data/db_editor.py and web_db_editor.py.    *)
(* Both open memory.db with sqlite3.connect and no PRAGMA foreign_keys, so *)
(* the FOREIGN KEY clause of similarity_index (memory_manager.py lines     *)
(* 66-74) is not enforced on their connections.                            *)
(***************************************************************************)
Editors == {"DatabaseEditor", "WebDatabaseEditor"}
Tables == {"execution_records", "similarity_index"}

\* f"DELETE FROM {table_name} WHERE id = ?" (db_editor.py line 161,
\* web_db_editor.py line 177) on a table that has an id column
EditorDeleteStatement(d, table_name, record_id) ==
    IF table_name = "execution_records"
    THEN DeleteRecordRow(d, record_id)
    ELSE d

\* DatabaseEditor.delete_record / WebDatabaseEditor.delete_record: one
\* synchronous call.  similarity_index has no id column, so the statement
\* raises there: DatabaseEditor prints and returns False, WebDatabaseEditor
\* re-raises; otherwise the delete is committed and the call returns
\* cursor.rowcount > 0.
EditorDeleteRecord(c) ==
    /\ CanStart(c)
    /\ writer = NoWriter
    /\ \E editor \in Editors, table_name \in Tables, id \in DeletedIds :
          LET r == [Idle EXCEPT !.op = editor, !.table_name = table_name,
                                !.record_id = id, !.connected = TRUE,
                                !.pre = db, !.pc = "done"]
              d == EditorDeleteStatement(db, table_name, id)
          IN IF table_name = "similarity_index"
             THEN /\ call' = [call EXCEPT ![c] =
                        [r EXCEPT !.outcome =
                            IF editor = "DatabaseEditor" THEN "delete_failed"
                            ELSE "raised"]]
                  /\ UNCHANGED <<db, work>>
             ELSE /\ call' = [call EXCEPT ![c] =
                        [r EXCEPT !.began = TRUE, !.committed = TRUE,
                                  !.outcome = IF HasRecord(db, id) THEN "deleted"
                                              ELSE "not_found"]]
                  /\ db' = d
                  /\ work' = d
    /\ ncalls' = ncalls + 1
    /\ UNCHANGED <<writer, now, lastWrite>>

\* An editor's delete_record called once on a store at rest.
EditNext == ncalls = 0 /\ EditorDeleteRecord(1)

EditSpec == QueryInit /\ [][EditNext]_vars

IsEditorDelete(c) == call[c].op \in Editors

\* C29: after DatabaseEditor.delete_record or WebDatabaseEditor.delete_record
\* deleted a record, no similarity_index row references the deleted id.
C29_EditorDeleteKeepsIntegrity ==
    \A c \in Callers :
        (Done(c) /\ IsEditorDelete(c) /\ call[c].outcome = "deleted") =>
            /\ ~HasRecord(db, call[c].record_id)
            /\ \A k \in AllKeywords : IndexRows(db, call[c].record_id, k) = 0

(***************************************************************************)
(* TaskExecutor.analyze_task, task_executor.py lines 21-71.                *)
(***************************************************************************)
\* What the LLM does with the analysis prompt when it is asked: it answers
\* with a text that _parse_analysis_result turns into a dict (parsed JSON
\* object, or the defaults of lines 218-228), with JSON that is not an object
\* (json.loads of line 172 returns a list or a number), or it raises.
AnalysisAnswers == {"dict", "not_dict", "raises"}

\* line 25: find_similar_executions(question, limit=3)
AnalysisLimit == 3

\* The lists find_similar_executions(question, limit) can return on store d:
\* [] for no keywords or a failed query, else the rows of the SELECT.
FindResults(d, question, limit) ==
    UNION {IF NoKeywords(e.keywords) THEN {<<>>}
           ELSE SelectSimilar(d, e.keywords, limit) \cup {<<>>} :
              e \in Extractions(question, <<>>)}

\* _build_analysis_prompt lines 82-84: record.get('rating', 0) on the first
\* record; an ExecutionRecord is a dataclass instance and has no get.
BuildAnalysisPromptRaises(similar_records) == similar_records # <<>>

\* lines 42-53: the plan of a successful analysis
AnalysedPlan(question, similar_records, strategy_suggestions) ==
    [NoPlan EXCEPT !.question = question, !.status = "planned",
                   !.similar_records = similar_records,
                   !.strategy_suggestions = strategy_suggestions]

\* lines 57-71: the default plan of the except branch
DefaultPlan(question) ==
    [NoPlan EXCEPT !.question = question, !.status = "planned",
                   !.strategy_suggestions = [NoSuggestions EXCEPT !.message = "[]"],
                   !.analysis_error = TRUE]

IsAnalyze(c) == call[c].op = "analyze_task"

CallAnalyzeTask(c) ==
    /\ CanStart(c)
    /\ \E q \in Questions, a \in AnalysisAnswers :
          call' = [call EXCEPT ![c] =
              [Idle EXCEPT !.op = "analyze_task", !.question = q,
                           !.analysis_answer = a, !.pc = "at_find"]]
    /\ ncalls' = ncalls + 1
    /\ UNCHANGED <<db, writer, work, now, lastWrite>>

\* line 25: the await on find_similar_executions completes
AnalyzeFindSimilar(c) ==
    /\ IsAnalyze(c) /\ call[c].pc = "at_find"
    /\ \E rows \in FindResults(View(c), call[c].question, AnalysisLimit) :
          call' = [call EXCEPT ![c].rows = rows, ![c].pc = "at_suggest"]
    /\ UNCHANGED <<db, writer, work, now, ncalls, lastWrite>>

\* lines 28-33: the await on get_strategy_suggestions completes and the
\* prompt is built; when that raises, lines 57-71 return the default plan
AnalyzeSuggest(c) ==
    /\ IsAnalyze(c) /\ call[c].pc = "at_suggest"
    /\ \E rows \in FindResults(View(c), call[c].question, SuggestionLimit) :
          LET r == [call[c] EXCEPT !.suggestions = StrategySuggestions(rows)]
          IN call' = [call EXCEPT ![c] =
                IF BuildAnalysisPromptRaises(r.rows)
                THEN [r EXCEPT !.plan = DefaultPlan(r.question), !.pc = "done"]
                ELSE [r EXCEPT !.pc = "at_llm"]]
    /\ UNCHANGED <<db, writer, work, now, ncalls, lastWrite>>

\* sqlite3.connect or a PRAGMA of find_similar_executions raises (outside
\* its try), in either of the two searches: lines 57-71
AnalyzeFindRaises(c) ==
    /\ IsAnalyze(c) /\ call[c].pc \in {"at_find", "at_suggest"}
    /\ call' = [call EXCEPT ![c].plan = DefaultPlan(call[c].question),
                            ![c].pc = "done"]
    /\ UNCHANGED <<db, writer, work, now, ncalls, lastWrite>>

\* lines 36-55: the await on llm.ainvoke completes, the answer is parsed and
\* the plan is built; lines 57-71 when the LLM raises or analysis_data has
\* no get
AnalyzeLlm(c) ==
    /\ IsAnalyze(c) /\ call[c].pc = "at_llm"
    /\ call' = [call EXCEPT ![c].plan =
                    IF call[c].analysis_answer = "dict"
                    THEN AnalysedPlan(call[c].question, call[c].rows,
                                      call[c].suggestions)
                    ELSE DefaultPlan(call[c].question),
                            ![c].pc = "done"]
    /\ UNCHANGED <<db, writer, work, now, ncalls, lastWrite>>

\* analyze_task called once on a store at rest.
AnalyzeNext ==
    \/ ncalls = 0 /\ CallAnalyzeTask(1)
    \/ AnalyzeFindSimilar(1)
    \/ AnalyzeSuggest(1)
    \/ AnalyzeFindRaises(1)
    \/ AnalyzeLlm(1)

AnalyzeSpec == QueryInit /\ [][AnalyzeNext]_vars

\* C26: when find_similar_executions returned at least one record and the LLM
\* analysis call succeeds, the plan analyze_task returns has status
\* 'planned', carries those records in similar_records and the synthesizer's
\* result in strategy_suggestions, and has no analysis_error.
C26_AnalysisCarriesRecords ==
    \A c \in Callers :
        ( /\ Done(c) /\ IsAnalyze(c)
          /\ call[c].rows # <<>>
          /\ call[c].analysis_answer # "raises" )
        => /\ call[c].plan.status = "planned"
           /\ call[c].plan.similar_records = call[c].rows
           /\ call[c].plan.strategy_suggestions = call[c].suggestions
           /\ ~call[c].plan.analysis_error

(***************************************************************************)
(* One session of simple_search.py working on its execution plan:          *)
(* TaskExecutor.execute_task (lines 319-399), stop_current_execution       *)
(* (lines 741-752) and process_execution_result (lines 622-653), called by *)
(* submit_rating (simple_search.py lines 345-366).  The plan lives in the  *)
(* session's call record; current_execution says that                      *)
(* TaskExecutor.current_execution refers to it.                            *)
(***************************************************************************)
MaxRatings == 2

\* The plans analyze_task returns on an empty store.
TaskPlans ==
    {AnalysedPlan(q, <<>>, [NoSuggestions EXCEPT !.message = "no_similar_records"]) :
        q \in Questions}
    \cup {DefaultPlan(q) : q \in Questions}

TaskInit ==
    /\ db = EmptyDb
    /\ writer = NoWriter
    /\ work = EmptyDb
    /\ \E plan \in TaskPlans :
          call = [c \in Callers |-> [Idle EXCEPT !.plan = plan]]
    /\ now = 1
    /\ ncalls = 0
    /\ lastWrite = [id \in {} |-> NoWrite]

\* The values of status after which execute_task has returned or the
\* execution was stopped.
TerminalStatus == {"completed", "timeout", "failed", "stopped"}

\* execute_task lines 321-329, up to the await of line 350: the status
\* becomes 'executing' and current_execution refers to the plan.  The
\* session executes a plan once, after its analysis.
CallExecuteTask(c) ==
    /\ call[c].pc = "idle" /\ call[c].plan.status = "planned"
    /\ call' = [call EXCEPT ![c].op = "execute_task",
                            ![c].plan.status = "executing",
                            ![c].current_execution = TRUE,
                            ![c].pc = "ex_run"]
    /\ UNCHANGED <<db, writer, work, now, ncalls, lastWrite>>

\* lines 350-367: agent.run() and the extraction return
ExecuteCompletes(c) ==
    /\ call[c].op = "execute_task" /\ call[c].pc = "ex_run"
    /\ call' = [call EXCEPT ![c].plan.status = "completed", ![c].pc = "done"]
    /\ UNCHANGED <<db, writer, work, now, ncalls, lastWrite>>

\* lines 369-389: asyncio.wait_for raises TimeoutError
ExecuteTimesOut(c) ==
    /\ call[c].op = "execute_task" /\ call[c].pc = "ex_run"
    /\ call' = [call EXCEPT ![c].plan.status = "timeout", ![c].pc = "done"]
    /\ UNCHANGED <<db, writer, work, now, ncalls, lastWrite>>

\* lines 391-397: any other exception
ExecuteFails(c) ==
    /\ call[c].op = "execute_task" /\ call[c].pc = "ex_run"
    /\ call' = [call EXCEPT ![c].plan.status = "failed", ![c].pc = "done"]
    /\ UNCHANGED <<db, writer, work, now, ncalls, lastWrite>>

\* stop_current_execution, a synchronous method another thread can call at
\* any time: lines 743-751 when current_execution is set (line 752 returns
\* False otherwise and changes nothing).  execute_task never clears
\* current_execution and nothing cancels the running agent.
StopCurrentExecution(c) ==
    /\ call[c].current_execution
    /\ call' = [call EXCEPT ![c].plan.status = "stopped",
                            ![c].current_execution = FALSE]
    /\ UNCHANGED <<db, writer, work, now, ncalls, lastWrite>>

\* submit_rating (simple_search.py lines 345-356) on the result of an
\* execution the page offers for rating (status completed or timeout, lines
\* 316-321): process_execution_result calls process_rating (task_executor.py
\* lines 626-634), modelled up to its first suspension point as
\* CallProcessRating.
CallSubmitRating(c) ==
    /\ call[c].pc = "idle"
    /\ call[c].plan.status \in {"completed", "timeout"}
    /\ call[c].plan.ratings < MaxRatings
    /\ \E st \in DirectSteps, r \in Ratings :
          LET r0 == [Idle EXCEPT !.op = "process_rating",
                                 !.question = call[c].plan.question,
                                 !.steps = st,
                                 !.rating = r, !.success = ShouldStore(r),
                                 !.plan = call[c].plan,
                                 !.current_execution = call[c].current_execution]
          IN call' = [call EXCEPT ![c] =
                IF OutOfRange(r)
                THEN [r0 EXCEPT !.success = FALSE, !.outcome = "invalid",
                                !.stored = FALSE, !.pc = "done"]
                ELSE IF ShouldStore(r)
                THEN EnterStoreExecution(r0)
                ELSE [r0 EXCEPT !.outcome = "below_threshold", !.pc = "pr_count"]]
    /\ UNCHANGED <<db, writer, work, now, ncalls, lastWrite>>

\* The session takes the returned value.  After process_rating,
\* process_execution_result records the rating in the plan (task_executor.py
\* lines 637-646); the call record is dropped, the plan is kept.
TaskReturn(c) ==
    /\ call[c].pc = "done"
    /\ LET stored == IsRating(c) /\ call[c].committed
           plan == IF stored
                   THEN [call[c].plan EXCEPT
                            !.ratings = @ + 1,
                            !.stored_ids = @ \cup {call[c].record_id}]
                   ELSE call[c].plan
       IN call' = [call EXCEPT ![c] =
                      [Idle EXCEPT !.plan = plan,
                                   !.current_execution = call[c].current_execution]]
    /\ UNCHANGED <<db, writer, work, now, ncalls, lastWrite>>

TaskNext ==
    \/ Tick
    \/ CallExecuteTask(1)
    \/ ExecuteCompletes(1)
    \/ ExecuteTimesOut(1)
    \/ ExecuteFails(1)
    \/ StopCurrentExecution(1)
    \/ CallSubmitRating(1)
    \/ StoreExtract(1)
    \/ StoreConnectRaises(1)
    \/ StoreUpsert(1)
    \/ StoreDeleteIndex(1)
    \/ StoreInsertIndex(1)
    \/ StoreCommit(1)
    \/ StoreStatementRaises(1)
    \/ StoreExcept(1)
    \/ ProcessRatingCount(1)
    \/ TaskReturn(1)

TaskSpec == TaskInit /\ [][TaskNext]_vars

\* C27: submitting a rating of four stars or more twice for the same
\* completed execution leaves exactly one record for that execution, and the
\* index rows of the execution belong to that one record.
C27_SecondRatingReplaces ==
    \A c \in Callers :
        call[c].plan.ratings >= 2 =>
            /\ Cardinality(call[c].plan.stored_ids \cap DOMAIN db.records) = 1
            /\ Cardinality({id \in call[c].plan.stored_ids :
                               \E k \in AllKeywords : IndexRows(db, id, k) > 0}) <= 1

\* C28: the status of a plan only moves planned -> executing -> one of
\* completed, timeout, failed, stopped, and a terminal value never changes:
\* execute_task finishing does not overwrite 'stopped' and
\* stop_current_execution after execute_task returned does not overwrite
\* completed, timeout or failed.
C28_StatusOnlyAdvances ==
    [][\A c \in Callers :
          LET old == call[c].plan.status
              new == call'[c].plan.status
          IN old # new =>
                \/ old = "planned" /\ new = "executing"
                \/ old = "executing" /\ new \in TerminalStatus]_vars

=============================================================================
